---- MODULE Spec2Model ----
(***************************************************************************)
(* A model of src/App.tsx (PNG Color Changer): the hex colour parser, the  *)
(* per-pixel recolor loop of processImage, and the App component's state   *)
(* machine (file upload, colour change, FileReader and Image callbacks).   *)
(*                                                                         *)
(* Four specifications share the module:                                   *)
(*   SpecHex      hexToRgb applied to strings drawn from bounded sets;     *)
(*   SpecRecolor  the pixel loop of processImage run as a pure transform,  *)
(*                one pixel per step, on buffers drawn from bounded sets,  *)
(*                twice in a row with the same colour;                     *)
(*   Spec         the App component: React state, in-flight FileReader     *)
(*                reads and in-flight Image decodes;                       *)
(*   SpecLive     Spec, with every Image decode firing load or error.      *)
(***************************************************************************)
EXTENDS Integers, Sequences, FiniteSets, Bags, TLC

(***************************************************************************)
(* Nullable values (string | null, object | null) are <<>> for null and    *)
(* <<v>> for a value v.                                                    *)
(***************************************************************************)
Null == <<>>

Some(v) == <<v>>

(***************************************************************************)
(* Bounds of the model.                                                    *)
(***************************************************************************)
\* the longest string of HexAlphabet handed to hexToRgb
MaxHexLen == 8

\* the largest number of pixels (width * height) of a buffer of SpecRecolor
MaxPixels == 2

\* the largest number of FileReader reads in flight at once
MaxReads == 1

\* the largest number of Image decodes (pipeline runs) in flight at once
MaxRuns == 2

(***************************************************************************)
(* hexToRgb, src/App.tsx:5-14.  A string is a sequence of one-character    *)
(* strings.                                                                *)
(***************************************************************************)
\* the characters the class [a-f\d] matches under the i flag, with the
\* value parseInt(.., 16) gives each
HexDigitValue(ch) ==
  CASE ch = "0" -> 0  [] ch = "1" -> 1  [] ch = "2" -> 2  [] ch = "3" -> 3
    [] ch = "4" -> 4  [] ch = "5" -> 5  [] ch = "6" -> 6  [] ch = "7" -> 7
    [] ch = "8" -> 8  [] ch = "9" -> 9
    [] ch \in {"a", "A"} -> 10  [] ch \in {"b", "B"} -> 11
    [] ch \in {"c", "C"} -> 12  [] ch \in {"d", "D"} -> 13
    [] ch \in {"e", "E"} -> 14  [] ch \in {"f", "F"} -> 15
    [] OTHER -> -1

IsHexDigit(ch) == HexDigitValue(ch) >= 0

\* a mutant of the pair's value: the two digits weighted in the wrong order
ParseHexPairSwapped(hi, lo) == 16 * HexDigitValue(lo) + HexDigitValue(hi)

\* parseInt(pair, 16) of a two-digit group
ParseHexPair(hi, lo) == 16 * HexDigitValue(hi) + HexDigitValue(lo)

\* a mutant of the pattern: the closing anchor $ dropped, so that six hex
\* digits may be followed by anything
HexMatchNoEnd(hex) ==
  LET digits == IF Len(hex) > 0 /\ hex[1] = "#" THEN Tail(hex) ELSE hex
  IN  IF Len(digits) >= 6 /\ \A k \in 1..6 : IsHexDigit(digits[k])
      THEN Some(SubSeq(digits, 1, 6))
      ELSE Null

\* /^#?([a-f\d]{2})([a-f\d]{2})([a-f\d]{2})$/i.exec(hex): the six digits
\* after the optional '#', or Null when the string does not match
HexMatch(hex) ==
  LET digits == IF Len(hex) > 0 /\ hex[1] = "#" THEN Tail(hex) ELSE hex
  IN  IF Len(digits) = 6 /\ \A k \in 1..6 : IsHexDigit(digits[k])
      THEN Some(digits)
      ELSE Null

hexToRgb(hex) ==
  LET result == HexMatch(hex)
  IN  IF result # Null
      THEN LET d == result[1]
           IN  Some([r |-> ParseHexPair(d[1], d[2]),
                     g |-> ParseHexPair(d[3], d[4]),
                     b |-> ParseHexPair(d[5], d[6])])
      ELSE Null

(***************************************************************************)
(* The pixel loop of processImage, src/App.tsx:62-82.                      *)
(*                                                                         *)
(* The code computes in doubles and stores into a Uint8ClampedArray, which *)
(* clamps to 0..255 and rounds to the nearest integer, ties to even.  The  *)
(* model computes the same value exactly, as a fraction over 255000:       *)
(*   luminance = L/1000            with L = 299 r + 587 g + 114 b          *)
(*   intensity = (255000 - L)/255000                                       *)
(*   channel   = (t (255000 - L) + 255 L)/255000                           *)
(* The double result differs from the exact one by less than 1e-12, so the *)
(* stored byte is the same unless the exact value lies on a tie n + 1/2,   *)
(* where the rounding error of the doubles decides; the pixels and colours *)
(* used below produce no such tie, in the first pass or in the second.     *)
(***************************************************************************)
\* a mutant of the luminance: the blue weight mistyped as 0.144, so that the
\* weights sum to more than 1
LuminanceBlue144(r_old, g_old, b_old) == 299 * r_old + 587 * g_old + 144 * b_old

\* 1000 * (0.299 * r_old + 0.587 * g_old + 0.114 * b_old)
Luminance1000(r_old, g_old, b_old) == 299 * r_old + 587 * g_old + 114 * b_old

\* the denominator of the fractions: 255 (white) in thousandths
Denominator == 255 * 1000

\* 255000 * intensity = 255000 * (1 - luminance / 255)
Intensity255000(lum1000) == Denominator - lum1000

\* 255000 * (channel * intensity + 255 * (1 - intensity))
BlendNumerator(channel, lum1000) ==
  channel * Intensity255000(lum1000) + 255 * (Denominator - Intensity255000(lum1000))

\* the store into a Uint8ClampedArray of num/den: clamp, round half to even
ToUint8Clamp(num, den) ==
  LET q   == num \div den
      rem == num % den
      rounded == IF 2 * rem > den THEN q + 1
                 ELSE IF 2 * rem < den THEN q
                 ELSE IF q % 2 = 0 THEN q ELSE q + 1
  IN  IF rounded < 0 THEN 0 ELSE IF rounded > 255 THEN 255 ELSE rounded

\* a mutant of the loop body: the alpha test dropped
LoopBodyNoAlphaTest(data, i, newColorRgb) ==
  LET lum == Luminance1000(data[i], data[i + 1], data[i + 2])
  IN  [data EXCEPT
         ![i]     = ToUint8Clamp(BlendNumerator(newColorRgb.r, lum), Denominator),
         ![i + 1] = ToUint8Clamp(BlendNumerator(newColorRgb.g, lum), Denominator),
         ![i + 2] = ToUint8Clamp(BlendNumerator(newColorRgb.b, lum), Denominator)]

\* a mutant of the loop body: the channel offsets shifted by one, so that
\* the blue value lands in the alpha byte
LoopBodyShifted(data, i, newColorRgb) ==
  LET alpha == data[i + 3]
      lum   == Luminance1000(data[i], data[i + 1], data[i + 2])
  IN  IF alpha > 0
      THEN [data EXCEPT
              ![i + 1] = ToUint8Clamp(BlendNumerator(newColorRgb.r, lum), Denominator),
              ![i + 2] = ToUint8Clamp(BlendNumerator(newColorRgb.g, lum), Denominator),
              ![i + 3] = ToUint8Clamp(BlendNumerator(newColorRgb.b, lum), Denominator)]
      ELSE data

\* a mutant of the loop body: the luminance used as the intensity, not its
\* inverse (dark pixels go white, light pixels take the colour)
LoopBodyNotInverted(data, i, newColorRgb) ==
  LET alpha == data[i + 3]
      lum   == Denominator - Luminance1000(data[i], data[i + 1], data[i + 2])
  IN  IF alpha > 0
      THEN [data EXCEPT
              ![i]     = ToUint8Clamp(BlendNumerator(newColorRgb.r, lum), Denominator),
              ![i + 1] = ToUint8Clamp(BlendNumerator(newColorRgb.g, lum), Denominator),
              ![i + 2] = ToUint8Clamp(BlendNumerator(newColorRgb.b, lum), Denominator)]
      ELSE data

\* a mutant of the loop body: the colour blended with black instead of white
LoopBodyBlendBlack(data, i, newColorRgb) ==
  LET alpha == data[i + 3]
      lum   == Luminance1000(data[i], data[i + 1], data[i + 2])
  IN  IF alpha > 0
      THEN [data EXCEPT
              ![i]     = ToUint8Clamp(newColorRgb.r * Intensity255000(lum), Denominator),
              ![i + 1] = ToUint8Clamp(newColorRgb.g * Intensity255000(lum), Denominator),
              ![i + 2] = ToUint8Clamp(newColorRgb.b * Intensity255000(lum), Denominator)]
      ELSE data

\* a mutant of the loop body: the result of an earlier pass with the same
\* colour is kept (a cache in front of the transform), so that a pixel the
\* colour could have produced is left as it is
LoopBodyCached(data, i, newColorRgb) ==
  LET alpha == data[i + 3]
      lum   == Luminance1000(data[i], data[i + 1], data[i + 2])
      cached == <<data[i], data[i + 1], data[i + 2]>> =
                  <<newColorRgb.r, newColorRgb.g, newColorRgb.b>>
  IN  IF alpha > 0 /\ ~cached
      THEN [data EXCEPT
              ![i]     = ToUint8Clamp(BlendNumerator(newColorRgb.r, lum), Denominator),
              ![i + 1] = ToUint8Clamp(BlendNumerator(newColorRgb.g, lum), Denominator),
              ![i + 2] = ToUint8Clamp(BlendNumerator(newColorRgb.b, lum), Denominator)]
      ELSE data

\* a mutant of the loop body: the luminance is read one pixel too early, from
\* the pixel before the one written (the first pixel reads its own)
LoopBodyReadsPrevious(data, i, newColorRgb) ==
  LET alpha == data[i + 3]
      j     == IF i >= 4 THEN i - 4 ELSE i
      lum   == Luminance1000(data[j], data[j + 1], data[j + 2])
  IN  IF alpha > 0
      THEN [data EXCEPT
              ![i]     = ToUint8Clamp(BlendNumerator(newColorRgb.r, lum), Denominator),
              ![i + 1] = ToUint8Clamp(BlendNumerator(newColorRgb.g, lum), Denominator),
              ![i + 2] = ToUint8Clamp(BlendNumerator(newColorRgb.b, lum), Denominator)]
      ELSE data

\* one iteration of the for loop, on the pixel whose red byte is data[i];
\* data is indexed from 0 as in the code
LoopBody(data, i, newColorRgb) ==
  LET alpha == data[i + 3]
      lum   == Luminance1000(data[i], data[i + 1], data[i + 2])
  IN  IF alpha > 0
      THEN [data EXCEPT
              ![i]     = ToUint8Clamp(BlendNumerator(newColorRgb.r, lum), Denominator),
              ![i + 1] = ToUint8Clamp(BlendNumerator(newColorRgb.g, lum), Denominator),
              ![i + 2] = ToUint8Clamp(BlendNumerator(newColorRgb.b, lum), Denominator)]
      ELSE data

\* data.length
DataLength(data) == Cardinality(DOMAIN data)

\* for (let i = 0; i < data.length; i += 4) { ... }, from index i on
RECURSIVE RecolorFrom(_, _, _)
RecolorFrom(data, i, newColorRgb) ==
  IF i < DataLength(data)
  THEN RecolorFrom(LoopBody(data, i, newColorRgb), i + 4, newColorRgb)
  ELSE data

\* the whole loop
RecolorLoop(data, newColorRgb) == RecolorFrom(data, 0, newColorRgb)

(***************************************************************************)
(* The state.                                                              *)
(***************************************************************************)
VARIABLES
  \* SpecRecolor: the transform run on its own
  inputImage,     \* the ImageData getImageData returned, before any pass
  imageData,      \* the ImageData the loop mutates in place
  loopI,          \* the loop variable i
  targetColor,    \* newColorRgb
  pass,           \* 1: first pass, 2: second pass with the same colour
  firstPass,      \* Null, or Some(data) once the first pass has ended
  recolorPc,      \* "loop" while the loop runs, "done" after both passes
  \* Spec: the App component
  selectedColor,  \* useState('#4ade80')
  originalImage,  \* useState<string | null>(null): the data URL read
  processedImage, \* useState<string | null>(null): the data URL displayed
  isLoading,      \* useState(false)
  error,          \* useState<string | null>(null)
  readers,        \* the FileReader reads in flight (a bag of files)
  runs,           \* the Image decodes in flight (a bag of pipeline runs)
  hist,           \* what the last handler did (history, read by no action)
  \* SpecHex: hexToRgb called on its own
  hexInput,       \* the argument hex
  hexResult,      \* the value returned: Null, or Some([r, g, b])
  hexPc           \* "call" before hexToRgb is called, "returned" after

recolorVars == <<inputImage, imageData, loopI, targetColor, pass, firstPass, recolorPc>>

appVars == <<selectedColor, originalImage, processedImage, isLoading, error,
             readers, runs, hist>>

hexVars == <<hexInput, hexResult, hexPc>>

vars == <<inputImage, imageData, loopI, targetColor, pass, firstPass, recolorPc,
          selectedColor, originalImage, processedImage, isLoading, error,
          readers, runs, hist, hexInput, hexResult, hexPc>>

(***************************************************************************)
(* Strings of the program.                                                 *)
(***************************************************************************)
\* useState<string>('#4ade80')
DefaultColor == <<"#", "4", "a", "d", "e", "8", "0">>

ErrInvalidColor == "Invalid color format."

ErrProcess == "Could not process the image. Please ensure it is a valid PNG file."

ErrLoad == "Failed to load the image. It might be an invalid format."

ErrRead == "Failed to read the file."

ErrNotPng == "Please upload a valid PNG file."

(***************************************************************************)
(* SpecRecolor: the inputs.                                                *)
(***************************************************************************)
\* RGBA quadruples: black, white, transparent pixels with and without
\* residual colour, greys, a primary, near-black, near-white, mixed colours
PixelSamples ==
  { <<0, 0, 0, 255>>, <<255, 255, 255, 255>>, <<0, 0, 0, 128>>,
    <<255, 255, 255, 1>>, <<10, 20, 30, 0>>, <<0, 0, 0, 0>>,
    <<128, 128, 128, 255>>, <<255, 0, 0, 255>>, <<1, 1, 1, 255>>,
    <<254, 254, 254, 255>>, <<100, 150, 200, 255>>, <<200, 100, 50, 127>> }

\* colour strings hexToRgb accepts: black, white, red, the default colour,
\* green without '#', near-black, near-white in mixed case, blue
ColorSamples ==
  { <<"#", "0", "0", "0", "0", "0", "0">>,
    <<"#", "F", "F", "F", "F", "F", "F">>,
    <<"#", "f", "f", "0", "0", "0", "0">>,
    DefaultColor,
    <<"0", "0", "F", "F", "0", "0">>,
    <<"#", "0", "1", "0", "1", "0", "1">>,
    <<"#", "F", "e", "F", "E", "f", "e">>,
    <<"#", "0", "0", "0", "0", "f", "F">> }

\* the (width, height) pairs of at most MaxPixels pixels
Dimensions ==
  { wh \in (1..MaxPixels) \X (1..MaxPixels) : wh[1] * wh[2] <= MaxPixels }

\* the flat RGBA byte array of a sequence of pixels, indexed from 0
Flatten(pixels) ==
  [k \in 0..(4 * Len(pixels) - 1) |-> pixels[(k \div 4) + 1][(k % 4) + 1]]

\* the sequences of n pixels drawn from PixelSamples
PixelSeqs(n) == [1..n -> PixelSamples]

\* ctx.getImageData(0, 0, canvas.width, canvas.height) of a w x h canvas
ImageDataOf(w, h, pixels) == [width |-> w, height |-> h, data |-> Flatten(pixels)]

\* pixel p (from 0) of a byte array, as <<r, g, b, a>>
PixelAt(data, p) == <<data[4 * p], data[4 * p + 1], data[4 * p + 2], data[4 * p + 3]>>

NumPixels(data) == DataLength(data) \div 4

(***************************************************************************)
(* The App component at rest: the state after the first render.            *)
(***************************************************************************)
\* hist records, for the last handler that ran: its name (ev), whether it
\* started an Image decode (startedDecode), whether processImage returned at
\* the colour check (aborted), and the result of the most recently started
\* pipeline run once that run has succeeded (latestOk)
HistInit ==
  [ev |-> "mount", startedDecode |-> FALSE, aborted |-> FALSE, latestOk |-> Null]

AppInit ==
  /\ selectedColor = DefaultColor
  /\ originalImage = Null
  /\ processedImage = Null
  /\ isLoading = FALSE
  /\ error = Null
  /\ readers = EmptyBag
  /\ runs = EmptyBag
  /\ hist = HistInit

\* hexToRgb not called on its own: the state of SpecHex at rest
HexIdle ==
  /\ hexInput = <<>>
  /\ hexResult = Null
  /\ hexPc = "idle"

(***************************************************************************)
(* SpecRecolor: the loop of src/App.tsx:59-84 on its own.  The first pass  *)
(* runs on the buffer getImageData returned; the second pass runs on the   *)
(* buffer the first pass left, with the same colour.                       *)
(***************************************************************************)
InitRecolor ==
  /\ \E wh \in Dimensions :
       \E pixels \in PixelSeqs(wh[1] * wh[2]) :
         inputImage = ImageDataOf(wh[1], wh[2], pixels)
  /\ imageData = inputImage
  /\ loopI = 0
  /\ \E hex \in ColorSamples : targetColor = hexToRgb(hex)[1]
  /\ pass = 1
  /\ firstPass = Null
  /\ recolorPc = "loop"
  /\ AppInit
  /\ HexIdle

\* one iteration: for (let i = 0; i < data.length; i += 4) { ... }
LoopStep ==
  /\ recolorPc = "loop"
  /\ loopI < DataLength(imageData.data)
  /\ imageData' = [imageData EXCEPT !.data = LoopBody(@, loopI, targetColor)]
  /\ loopI' = loopI + 4
  /\ UNCHANGED <<inputImage, targetColor, pass, firstPass, recolorPc>>
  /\ UNCHANGED <<appVars, hexVars>>

\* the loop of the first pass ends; the second pass starts on its result
EndFirstPass ==
  /\ recolorPc = "loop"
  /\ pass = 1
  /\ ~(loopI < DataLength(imageData.data))
  /\ firstPass' = Some(imageData)
  /\ pass' = 2
  /\ loopI' = 0
  /\ UNCHANGED <<inputImage, imageData, targetColor, recolorPc>>
  /\ UNCHANGED <<appVars, hexVars>>

\* the loop of the second pass ends
EndSecondPass ==
  /\ recolorPc = "loop"
  /\ pass = 2
  /\ ~(loopI < DataLength(imageData.data))
  /\ recolorPc' = "done"
  /\ UNCHANGED <<inputImage, imageData, loopI, targetColor, pass, firstPass>>
  /\ UNCHANGED <<appVars, hexVars>>

NextRecolor == LoopStep \/ EndFirstPass \/ EndSecondPass

SpecRecolor == InitRecolor /\ [][NextRecolor]_vars

(***************************************************************************)
(* Claims about the transform (SpecRecolor).                               *)
(***************************************************************************)
\* the bytes of the first pass, as far as it has got
FirstPassData == IF pass = 1 THEN imageData.data ELSE firstPass[1].data

\* pixel p has been through the loop body of the first pass
DoneInFirstPass(p) == pass = 2 \/ 4 * p < loopI

PixelIndexes == 0..(NumPixels(inputImage.data) - 1)

Rgb(px) == <<px[1], px[2], px[3]>>

TargetRgb == <<targetColor.r, targetColor.g, targetColor.b>>

\* C1: a pixel whose alpha is 0 has all four channels byte-identical in the
\* output of the recolor loop, for every buffer and every colour (at every
\* point of the loop, in both passes).
C1_TransparentPixelUnchanged ==
  \A p \in PixelIndexes :
    inputImage.data[4 * p + 3] = 0 =>
      PixelAt(imageData.data, p) = PixelAt(inputImage.data, p)

\* C1's case: the first pass has ended on a buffer that holds a transparent
\* pixel with residual colour beside a pixel the pass changed.
C1_Witness ==
  /\ pass = 2
  /\ \E p \in PixelIndexes : PixelAt(inputImage.data, p) = <<10, 20, 30, 0>>
  /\ \E q \in PixelIndexes : PixelAt(FirstPassData, q) # PixelAt(inputImage.data, q)

\* C2: the loop never changes the width, the height, the length of the
\* buffer or the alpha byte of any pixel.
C2_ShapeAndAlphaUnchanged ==
  /\ imageData.width = inputImage.width
  /\ imageData.height = inputImage.height
  /\ DOMAIN imageData.data = DOMAIN inputImage.data
  /\ DataLength(imageData.data) = 4 * imageData.width * imageData.height
  /\ \A p \in PixelIndexes : imageData.data[4 * p + 3] = inputImage.data[4 * p + 3]

\* C2's case: both passes have ended on a two-pixel buffer with a partly
\* transparent pixel whose colour the loop changed.
C2_Witness ==
  /\ recolorPc = "done"
  /\ NumPixels(inputImage.data) = 2
  /\ \E p \in PixelIndexes :
       /\ inputImage.data[4 * p + 3] \in 1..254
       /\ Rgb(PixelAt(imageData.data, p)) # Rgb(PixelAt(inputImage.data, p))

\* C3: a pixel with r = g = b = 0 and alpha > 0 comes out of the (first)
\* pass with exactly the target colour's r, g, b.
C3_BlackBecomesTarget ==
  \A p \in PixelIndexes :
    ( /\ DoneInFirstPass(p)
      /\ Rgb(PixelAt(inputImage.data, p)) = <<0, 0, 0>>
      /\ inputImage.data[4 * p + 3] > 0 )
    => Rgb(PixelAt(FirstPassData, p)) = TargetRgb

\* C3's case: an opaque or partly transparent black pixel has been through
\* the loop body with a colour that is not black.
C3_Witness ==
  \E p \in PixelIndexes :
    /\ DoneInFirstPass(p)
    /\ Rgb(PixelAt(inputImage.data, p)) = <<0, 0, 0>>
    /\ inputImage.data[4 * p + 3] \in 1..254
    /\ TargetRgb = <<74, 222, 128>>

\* C4: a pixel with r = g = b = 255 and alpha > 0 comes out of the (first)
\* pass white, whatever the target colour.
C4_WhiteStaysWhite ==
  \A p \in PixelIndexes :
    ( /\ DoneInFirstPass(p)
      /\ Rgb(PixelAt(inputImage.data, p)) = <<255, 255, 255>>
      /\ inputImage.data[4 * p + 3] > 0 )
    => Rgb(PixelAt(FirstPassData, p)) = <<255, 255, 255>>

\* C4's case: a white pixel with alpha > 0 has been through the loop body
\* with the target colour black.
C4_Witness ==
  \E p \in PixelIndexes :
    /\ DoneInFirstPass(p)
    /\ Rgb(PixelAt(inputImage.data, p)) = <<255, 255, 255>>
    /\ inputImage.data[4 * p + 3] > 0
    /\ TargetRgb = <<0, 0, 0>>

\* the second pass cannot change anything: the colour is black, or every
\* pixel is fully transparent or white after the first pass
SecondPassNoOpCase ==
  \/ TargetRgb = <<0, 0, 0>>
  \/ \A p \in PixelIndexes :
       \/ inputImage.data[4 * p + 3] = 0
       \/ Rgb(PixelAt(firstPass[1].data, p)) = <<255, 255, 255>>

\* the second pass must change something: the buffer holds a black pixel
\* with alpha > 0 and the colour has a channel v with
\* (255 - v) * luminance(colour) > 127.5
SecondPassDiffersCase ==
  /\ \E p \in PixelIndexes :
       /\ Rgb(PixelAt(inputImage.data, p)) = <<0, 0, 0>>
       /\ inputImage.data[4 * p + 3] > 0
  /\ \E v \in {targetColor.r, targetColor.g, targetColor.b} :
       2 * (255 - v) * Luminance1000(targetColor.r, targetColor.g, targetColor.b)
         > Denominator

\* C5 as stated: for every buffer and every colour the second pass with the
\* same colour differs from the first pass's output.
C5_SecondPassAlwaysDiffers ==
  recolorPc = "done" => imageData.data # firstPass[1].data

\* C5 as amended: the second pass is not a no-op in general: it differs from
\* the first pass's output whenever the buffer holds a black pixel with
\* alpha > 0 and the colour has a channel v with (255 - v) * luminance > 127.5
\* (such as #ff0000); it is a no-op when the colour is black or every pixel
\* is fully transparent or white after the first pass.
C5_SecondPassDiffersOrFixed ==
  recolorPc = "done" =>
    /\ SecondPassDiffersCase => imageData.data # firstPass[1].data
    /\ SecondPassNoOpCase => imageData.data = firstPass[1].data

\* C5's case: both passes have ended on a buffer with an opaque black pixel
\* and the colour red, and the second pass changed the first pass's output.
C5_Witness ==
  /\ recolorPc = "done"
  /\ SecondPassDiffersCase
  /\ TargetRgb = <<255, 0, 0>>
  /\ \E p \in PixelIndexes :
       /\ PixelAt(inputImage.data, p) = <<0, 0, 0, 255>>
       /\ PixelAt(firstPass[1].data, p) = <<255, 0, 0, 255>>
       /\ PixelAt(imageData.data, p) = <<255, 76, 76, 255>>

(***************************************************************************)
(* Spec: the App component.                                                *)
(*                                                                         *)
(* A file is its declared type and its bytes; a data URL is a media type   *)
(* and the bytes it carries.  The bytes of a PNG are the image they        *)
(* encode (PNG is lossless); other bytes decode to nothing.                *)
(***************************************************************************)
\* canvas.toDataURL('image/png') of a canvas holding imgData
toDataURL(imgData) ==
  [mime |-> "image/png",
   bytes |-> [format |-> "png", width |-> imgData.width,
              height |-> imgData.height, data |-> imgData.data]]

\* reader.readAsDataURL(file): event.target.result
readAsDataURL(file) == [mime |-> file.type, bytes |-> file.bytes]

\* img.src = url: Some(imageData) when the bytes decode (img.onload), Null
\* when they do not (img.onerror)
ImageDecode(url) ==
  IF url.bytes.format = "png"
  THEN Some([width |-> url.bytes.width, height |-> url.bytes.height,
             data |-> url.bytes.data])
  ELSE Null

\* the image uploaded: 3 x 1, a black, a white and a transparent pixel
ImageA ==
  ImageDataOf(3, 1, <<<<0, 0, 0, 255>>, <<255, 255, 255, 255>>, <<0, 0, 0, 0>>>>)

\* e.target.files?.[0]: a PNG of the image, a file declared image/png whose
\* bytes are no image, a JPEG, and no file at all
FileInputs ==
  { Some([type |-> "image/png", bytes |-> toDataURL(ImageA).bytes]),
    Some([type |-> "image/png", bytes |-> [format |-> "corrupt"]]),
    Some([type |-> "image/jpeg", bytes |-> [format |-> "jpeg"]]),
    Null }

\* e.target.value of the colour input: the default, red, and (where the
\* browser shows a text field for type="color") a 3-digit short hex
ColorInputs ==
  { DefaultColor,
    <<"#", "f", "f", "0", "0", "0", "0">>,
    <<"#", "f", "f", "f">> }

\* the runs in flight are no longer the most recently started
MarkStale(rs) ==
  LET old == BagToSet(rs)
      stale == {[r EXCEPT !.latest = FALSE] : r \in old}
  IN  [t \in stale |->
         (IF t \in old THEN rs[t] ELSE 0)
         + (IF [t EXCEPT !.latest = TRUE] \in old
            THEN rs[[t EXCEPT !.latest = TRUE]] ELSE 0)]

\* a mutant of processImage: the early return at the colour check leaves
\* the loading flag as line 37 set it
processImageKeepsLoading(st, orig, color) ==
  IF orig = Null
  THEN st
  ELSE LET newColorRgb == hexToRgb(color)
       IN  IF newColorRgb = Null
           THEN [st EXCEPT !.isLoading = TRUE, !.error = Some(ErrInvalidColor),
                           !.aborted = TRUE]
           ELSE [st EXCEPT
                   !.isLoading = TRUE,
                   !.error = Null,
                   !.runs = MarkStale(st.runs)
                            (+) SetToBag({[src |-> orig[1], rgb |-> newColorRgb[1],
                                           latest |-> TRUE]}),
                   !.startedDecode = TRUE]

\* processImage, src/App.tsx:34-102, up to img.src = originalImage.
\* st holds the state the call may write; canvasRef.current and the 2d
\* context exist from the first render on.
processImage(st, orig, color) ==
  IF orig = Null
  THEN st
  ELSE LET newColorRgb == hexToRgb(color)
       IN  IF newColorRgb = Null
           THEN [st EXCEPT !.isLoading = FALSE, !.error = Some(ErrInvalidColor),
                           !.aborted = TRUE]
           ELSE [st EXCEPT
                   !.isLoading = TRUE,
                   !.error = Null,
                   !.runs = MarkStale(st.runs)
                            (+) SetToBag({[src |-> orig[1], rgb |-> newColorRgb[1],
                                           latest |-> TRUE]}),
                   !.startedDecode = TRUE]

\* useEffect(..., [processImage, originalImage]), src/App.tsx:104-108, after
\* the render a handler caused: processImage is a new function when
\* originalImage or selectedColor changed (useCallback, line 102)
useEffect(st, origOld, colorOld, origNew, colorNew) ==
  IF <<origNew, colorNew>> # <<origOld, colorOld>> /\ origNew # Null
  THEN processImage(st, origNew, colorNew)
  ELSE st

\* the state a handler hands to the effect
EffectInput(err) ==
  [isLoading |-> isLoading, error |-> err, runs |-> runs,
   startedDecode |-> FALSE, aborted |-> FALSE]

\* the history fields after a handler that completed no run
HistOf(ev, startedDecode, aborted) ==
  [ev |-> ev, startedDecode |-> startedDecode, aborted |-> aborted,
   latestOk |-> IF startedDecode THEN Null ELSE hist.latestOk]

\* the history fields after the callback of run r, with its result if any
HistOfRun(ev, r, result) ==
  [ev |-> ev, startedDecode |-> FALSE, aborted |-> FALSE,
   latestOk |-> IF r.latest THEN result ELSE hist.latestOk]

\* a bag without one copy of x
Without(bag, x) == bag (-) SetToBag({x})

\* a mutant of the file type test: any file is read
IsPngAnyFile(file) == file # Null

\* file && file.type === 'image/png'
IsPng(file) == file # Null /\ file[1].type = "image/png"

\* handleFileChange, src/App.tsx:110-128
handleFileChange(file) ==
  IF IsPng(file)
  THEN /\ BagCardinality(readers) < MaxReads
       /\ error' = Null
       /\ readers' = readers (+) SetToBag({file[1]})
       /\ hist' = HistOf("fileAccepted", FALSE, FALSE)
       /\ UNCHANGED <<selectedColor, originalImage, processedImage, isLoading, runs>>
  ELSE /\ error' = Some(ErrNotPng)
       /\ originalImage' = Null
       /\ processedImage' = Null
       /\ hist' = HistOf("fileRejected", FALSE, FALSE)
       /\ UNCHANGED <<selectedColor, isLoading, readers, runs>>

\* reader.onload, src/App.tsx:115-118, and the effect of the render after it
readerOnLoad(file) ==
  LET result == Some(readAsDataURL(file))
      st == useEffect(EffectInput(error), originalImage, selectedColor,
                      result, selectedColor)
  IN  /\ BagCardinality(st.runs) <= MaxRuns
      /\ readers' = Without(readers, file)
      /\ originalImage' = result
      /\ processedImage' = Null
      /\ isLoading' = st.isLoading
      /\ error' = st.error
      /\ runs' = st.runs
      /\ hist' = HistOf("readerOnLoad", st.startedDecode, st.aborted)
      /\ UNCHANGED selectedColor

\* reader.onerror, src/App.tsx:119-121
readerOnError(file) ==
  /\ readers' = Without(readers, file)
  /\ error' = Some(ErrRead)
  /\ hist' = HistOf("readerOnError", FALSE, FALSE)
  /\ UNCHANGED <<selectedColor, originalImage, processedImage, isLoading, runs>>

\* handleColorChange, src/App.tsx:130-132, and the effect of the render
handleColorChange(value) ==
  LET st == useEffect(EffectInput(error), originalImage, selectedColor,
                      originalImage, value)
  IN  /\ BagCardinality(st.runs) <= MaxRuns
      /\ selectedColor' = value
      /\ isLoading' = st.isLoading
      /\ error' = st.error
      /\ runs' = st.runs
      /\ hist' = HistOf("colorChange", st.startedDecode, st.aborted)
      /\ UNCHANGED <<originalImage, processedImage, readers>>

\* a mutant of img.onload: the catch block also clears the result
imgOnLoadCatchClears(r, throws) ==
  LET img == ImageDecode(r.src)[1]
      out == toDataURL([img EXCEPT !.data = RecolorLoop(@, r.rgb)])
  IN  /\ ImageDecode(r.src) # Null
      /\ runs' = Without(runs, r)
      /\ isLoading' = FALSE
      /\ IF throws
         THEN /\ error' = Some(ErrProcess)
              /\ processedImage' = Null
              /\ hist' = HistOfRun("imgOnLoadThrew", r, Null)
         ELSE /\ processedImage' = Some(out)
              /\ hist' = HistOfRun("imgOnLoad", r, Some(out))
              /\ UNCHANGED error
      /\ UNCHANGED <<selectedColor, originalImage, readers>>

\* img.onload, src/App.tsx:52-94: the image decoded; getImageData may throw
\* (throws), which the catch block reports
imgOnLoad(r, throws) ==
  LET img == ImageDecode(r.src)[1]
      out == toDataURL([img EXCEPT !.data = RecolorLoop(@, r.rgb)])
  IN  /\ ImageDecode(r.src) # Null
      /\ runs' = Without(runs, r)
      /\ isLoading' = FALSE
      /\ IF throws
         THEN /\ error' = Some(ErrProcess)
              /\ hist' = HistOfRun("imgOnLoadThrew", r, Null)
              /\ UNCHANGED processedImage
         ELSE /\ processedImage' = Some(out)
              /\ hist' = HistOfRun("imgOnLoad", r, Some(out))
              /\ UNCHANGED error
      /\ UNCHANGED <<selectedColor, originalImage, readers>>

\* a mutant of img.onerror: the source that did not decode is displayed as
\* the result
imgOnErrorShowsSource(r) ==
      /\ ImageDecode(r.src) = Null
      /\ runs' = Without(runs, r)
      /\ error' = Some(ErrLoad)
      /\ isLoading' = FALSE
      /\ processedImage' = Some(r.src)
      /\ hist' = HistOfRun("imgOnError", r, Null)
      /\ UNCHANGED <<selectedColor, originalImage, readers>>

\* a mutant of img.onerror: the error is reported and the loading flag is
\* left as it is
imgOnErrorKeepsLoading(r) ==
      /\ ImageDecode(r.src) = Null
      /\ runs' = Without(runs, r)
      /\ error' = Some(ErrLoad)
      /\ hist' = HistOfRun("imgOnError", r, Null)
      /\ UNCHANGED <<selectedColor, originalImage, processedImage, isLoading, readers>>

\* img.onerror, src/App.tsx:96-99: the image did not decode
imgOnError(r) ==
      /\ ImageDecode(r.src) = Null
      /\ runs' = Without(runs, r)
      /\ error' = Some(ErrLoad)
      /\ isLoading' = FALSE
      /\ hist' = HistOfRun("imgOnError", r, Null)
      /\ UNCHANGED <<selectedColor, originalImage, processedImage, readers>>

\* the transform's own variables, unused by the App
RecolorIdle ==
  /\ inputImage = ImageDataOf(1, 1, <<<<0, 0, 0, 0>>>>)
  /\ imageData = inputImage
  /\ loopI = 0
  /\ targetColor = hexToRgb(DefaultColor)[1]
  /\ pass = 1
  /\ firstPass = Null
  /\ recolorPc = "idle"

Init == AppInit /\ RecolorIdle /\ HexIdle

FileChange == \E file \in FileInputs : handleFileChange(file) /\ UNCHANGED <<recolorVars, hexVars>>

ReadLoaded == \E file \in BagToSet(readers) : readerOnLoad(file) /\ UNCHANGED <<recolorVars, hexVars>>

ReadFailed == \E file \in BagToSet(readers) : readerOnError(file) /\ UNCHANGED <<recolorVars, hexVars>>

ColorChange == \E value \in ColorInputs : handleColorChange(value) /\ UNCHANGED <<recolorVars, hexVars>>

ImageLoaded ==
  \E r \in BagToSet(runs) : \E throws \in BOOLEAN :
    imgOnLoad(r, throws) /\ UNCHANGED <<recolorVars, hexVars>>

ImageFailed == \E r \in BagToSet(runs) : imgOnError(r) /\ UNCHANGED <<recolorVars, hexVars>>

Next ==
  \/ FileChange
  \/ ReadLoaded
  \/ ReadFailed
  \/ ColorChange
  \/ ImageLoaded
  \/ ImageFailed

Spec == Init /\ [][Next]_vars

\* the steps in which a decode in flight ends: img.onerror or img.onload.
\* The steps of img.onload in which getImageData throws are steps of
\* ImageLoaded; they are named first so that whether a decode can end is
\* decided without running the transform.
DecodeEnds ==
  \/ ImageFailed
  \/ \E r \in BagToSet(runs) : imgOnLoad(r, TRUE) /\ UNCHANGED <<recolorVars, hexVars>>
  \/ ImageLoaded

\* the App component in a browser that fires load or error for every Image
\* whose src has been set: a decode in flight does not stay in flight for ever
SpecLive == Spec /\ WF_vars(DecodeEnds)

(***************************************************************************)
(* Claims about the App component (Spec).                                  *)
(***************************************************************************)
\* the file selected is not declared image/png (or no file was selected)
NotPngInput(file) == file = Null \/ file[1].type # "image/png"

\* C6 as stated: selecting a file that is not image/png yields the
\* unsupported-type error, starts no read or decode, and leaves the displayed
\* result (processedImage) unchanged.
C6_RejectedFileKeepsResult ==
  [][\A file \in FileInputs :
       (NotPngInput(file) /\ handleFileChange(file)) =>
         /\ error' = Some(ErrNotPng)
         /\ readers' = readers
         /\ runs' = runs
         /\ processedImage' = processedImage]_vars

\* C6 as amended: selecting a file that is not image/png yields the
\* unsupported-type error and starts no read or decode, and it resets both
\* originalImage and processedImage to null: a displayed result is removed.
C6_RejectedFileClearsResult ==
  [][\A file \in FileInputs :
       (NotPngInput(file) /\ handleFileChange(file)) =>
         /\ error' = Some(ErrNotPng)
         /\ readers' = readers
         /\ runs' = runs
         /\ isLoading' = isLoading
         /\ processedImage' = Null
         /\ originalImage' = Null]_vars

\* C6's case: a run had succeeded and shown its result, and then a file that
\* is no PNG was selected: the error is shown and the view is empty.
C6_Witness ==
  /\ hist.ev = "fileRejected"
  /\ hist.latestOk # Null
  /\ runs = EmptyBag
  /\ error = Some(ErrNotPng)
  /\ processedImage = Null

\* C7: last write wins: once every run in flight has completed, the
\* displayed result is the one of the most recently started run (if that
\* run succeeded), in whatever order the runs' callbacks fired.
C7_LatestRunWins ==
  ( /\ hist.ev \in {"imgOnLoad", "imgOnLoadThrew", "imgOnError"}
    /\ runs = EmptyBag
    /\ hist.latestOk # Null )
  => processedImage = hist.latestOk

\* the step is the failure of a pipeline run: a failure callback, or the
\* handler that triggered a run which stops at the colour check or whose
\* image cannot decode
FailedRunStep ==
  \/ hist'.ev \in {"readerOnError", "imgOnError", "imgOnLoadThrew"}
  \/ /\ hist'.ev \in {"readerOnLoad", "colorChange"}
     /\ \/ hist'.aborted
        \/ /\ hist'.startedDecode
           /\ \E r \in BagToSet(runs') : r.latest /\ ImageDecode(r.src) = Null

\* C8 as stated: a failed run, from the upload or colour change that
\* triggers it to its failure callback, leaves processedImage as it was.
C8_FailedRunKeepsResult ==
  [][FailedRunStep => processedImage' = processedImage]_vars

\* C8 as amended: the failure paths themselves (reader.onerror, the return
\* at the colour check after a colour change, img.onerror, the catch block)
\* leave processedImage and originalImage as they are and change only error
\* and isLoading; but reader.onload, which triggers the run of an upload,
\* has reset processedImage to null before that run starts, so a run of a
\* newly read file that fails leaves the view empty.
C8_FailurePathsKeepResult ==
  [][/\ hist'.ev \in {"readerOnError", "imgOnError", "imgOnLoadThrew"} =>
          /\ processedImage' = processedImage
          /\ originalImage' = originalImage
          /\ selectedColor' = selectedColor
          /\ error' # Null
     /\ (hist'.ev = "colorChange" /\ hist'.aborted) =>
          /\ processedImage' = processedImage
          /\ originalImage' = originalImage
          /\ error' = Some(ErrInvalidColor)
          /\ runs' = runs
     /\ hist'.ev = "readerOnLoad" => processedImage' = Null]_vars

\* C8's case: a run has just failed in the catch block while the result of
\* an earlier run was displayed, and that result is still displayed.
C8_Witness ==
  /\ hist.ev = "imgOnLoadThrew"
  /\ error = Some(ErrProcess)
  /\ processedImage # Null
  /\ runs = EmptyBag

\* C9: whenever a run has just completed successfully and set the displayed
\* result, the error message is null.
C9_SuccessShowsNoError ==
  hist.ev = "imgOnLoad" => error = Null

\* C10: every read of an uploaded PNG that completes, and every colour
\* change made while an image is loaded, starts a pipeline run (an Image
\* decode), unless the colour fails the hex pattern.
C10_EveryChangeStartsRun ==
  ( /\ \/ hist.ev = "readerOnLoad"
       \/ hist.ev = "colorChange" /\ originalImage # Null
    /\ hexToRgb(selectedColor) # Null )
  => hist.startedDecode

(***************************************************************************)
(* The pattern of a colour string, written out character by character:     *)
(* six hex digits in either case, with or without one leading '#'.         *)
(***************************************************************************)
HexChars ==
  { "0", "1", "2", "3", "4", "5", "6", "7", "8", "9",
    "a", "b", "c", "d", "e", "f", "A", "B", "C", "D", "E", "F" }

MatchesHexPattern(s) ==
  \/ Len(s) = 6 /\ \A k \in 1..6 : s[k] \in HexChars
  \/ Len(s) = 7 /\ s[1] = "#" /\ \A k \in 2..7 : s[k] \in HexChars

\* C11: a pipeline run whose colour string fails the hex pattern reports the
\* invalid-colour error and goes no further: no Image decode is started,
\* processedImage is left as the run found it (as it was, when a colour
\* change started the run; null, as reader.onload set it, when a finished
\* read started the run), and isLoading is false when the run returns.
C11_InvalidColorStopsRun ==
  [][ /\ \A value \in ColorInputs :
           ( /\ handleColorChange(value)
             /\ value # selectedColor
             /\ originalImage # Null
             /\ ~MatchesHexPattern(value) )
           => /\ error' = Some(ErrInvalidColor)
              /\ isLoading' = FALSE
              /\ runs' = runs
              /\ ~hist'.startedDecode
              /\ processedImage' = processedImage
      /\ \A file \in BagToSet(readers) :
           ( /\ readerOnLoad(file)
             /\ Some(readAsDataURL(file)) # originalImage
             /\ ~MatchesHexPattern(selectedColor) )
           => /\ error' = Some(ErrInvalidColor)
              /\ isLoading' = FALSE
              /\ runs' = runs
              /\ ~hist'.startedDecode
              /\ processedImage' = Null
    ]_vars

\* C11 witness: a result is displayed, the colour was changed to the 3-digit
\* string and the run returned at the colour check.
C11_Witness ==
  /\ hist.ev = "colorChange"
  /\ hist.aborted
  /\ selectedColor = <<"#", "f", "f", "f">>
  /\ processedImage # Null
  /\ error = Some(ErrInvalidColor)
  /\ ~isLoading

(***************************************************************************)
(* SpecHex: hexToRgb, src/App.tsx:5-14, called once on a string.           *)
(***************************************************************************)
\* a '#', a digit, a hex letter and the first letter after the hex letters
HexAlphabet == { "#", "0", "F", "g" }

\* every string of at most MaxHexLen characters of HexAlphabet: the empty
\* string, short hex, one '#' too many, one digit too many, non-hex letters
ShortStrings == UNION { [1..n -> HexAlphabet] : n \in 0..MaxHexLen }

\* the strings xyzxyz and #xyzxyz for hex digits x, y, z of either case: each
\* of the three pairs takes every combination of two hex digits
RotatedStrings ==
  { prefix \o <<x, y, z, x, y, z>> :
      prefix \in { <<>>, <<"#">> }, x \in HexChars, y \in HexChars, z \in HexChars }

HexInputs == ShortStrings \cup RotatedStrings

InitHex ==
  /\ hexInput \in HexInputs
  /\ hexResult = Null
  /\ hexPc = "call"
  /\ AppInit
  /\ RecolorIdle

\* const result = hexToRgb(hex)
CallHexToRgb ==
  /\ hexPc = "call"
  /\ hexResult' = hexToRgb(hexInput)
  /\ hexPc' = "returned"
  /\ UNCHANGED hexInput
  /\ UNCHANGED <<recolorVars, appVars>>

NextHex == CallHexToRgb

SpecHex == InitHex /\ [][NextHex]_vars

(***************************************************************************)
(* Claims about hexToRgb (SpecHex).                                        *)
(***************************************************************************)
\* the uppercase hex digit of a value 0..15
UpperHexDigit(v) ==
  <<"0", "1", "2", "3", "4", "5", "6", "7", "8", "9",
    "A", "B", "C", "D", "E", "F">>[v + 1]

\* a byte as a two-digit uppercase hex pair
FormatHexPair(n) == <<UpperHexDigit(n \div 16), UpperHexDigit(n % 16)>>

\* a character in upper case
UpperChar(ch) ==
  CASE ch = "a" -> "A" [] ch = "b" -> "B" [] ch = "c" -> "C" [] ch = "d" -> "D"
    [] ch = "e" -> "E" [] ch = "f" -> "F" [] ch = "g" -> "G" [] OTHER -> ch

ToUpperCase(s) == [k \in 1..Len(s) |-> UpperChar(s[k])]

\* a string without its leading '#', if it has one
StripHash(s) == IF Len(s) > 0 /\ s[1] = "#" THEN Tail(s) ELSE s

\* C12: for a string of exactly six hex digits, with or without a leading
\* '#', in any letter case, hexToRgb returns a colour whose components lie in
\* 0..255, and the components written as three two-digit uppercase hex pairs
\* give the string in upper case without its '#'.
C12_HexRoundTrip ==
  (hexPc = "returned" /\ MatchesHexPattern(hexInput))
  => /\ hexResult # Null
     /\ LET c == hexResult[1]
        IN  /\ c.r \in 0..255 /\ c.g \in 0..255 /\ c.b \in 0..255
            /\ FormatHexPair(c.r) \o FormatHexPair(c.g) \o FormatHexPair(c.b)
                 = ToUpperCase(StripHash(hexInput))

\* C12 witness: #4aD4aD, in mixed case, parsed to (74, 212, 173).
C12_Witness ==
  /\ hexPc = "returned"
  /\ hexInput = <<"#", "4", "a", "D", "4", "a", "D">>
  /\ hexResult = Some([r |-> 74, g |-> 212, b |-> 173])

\* C13: for a string that is not six hex digits with an optional leading '#'
\* (wrong length, a non-hex character, a second '#', the empty string),
\* hexToRgb returns null.
C13_MalformedIsNull ==
  (hexPc = "returned" /\ ~MatchesHexPattern(hexInput)) => hexResult = Null

\* C13 witness: the string ##000000 (one '#' too many) was rejected.
C13_Witness ==
  /\ hexPc = "returned"
  /\ hexInput = <<"#", "#", "0", "0", "0", "0", "0", "0">>
  /\ hexResult = Null

(***************************************************************************)
(* Further claims about the transform (SpecRecolor).                       *)
(***************************************************************************)
\* the buffers a pass starts from: the input, and the first pass's output
PassInputs ==
  {inputImage.data} \cup (IF firstPass = Null THEN {} ELSE {firstPass[1].data})

\* C14: for every pixel with alpha > 0 a pass starts from and every channel
\* t of the target colour, the intensity lies in [0, 1] and the blended
\* channel lies in [0, 255], between t and 255 (as exact fractions over
\* 255000); the byte stored for a pixel of the first pass lies in t..255 and
\* is the blended value rounded, within 1/2 of it, so that nothing was
\* clamped.
C14_IntensityAndChannelInRange ==
  /\ \A data \in PassInputs : \A p \in PixelIndexes :
       data[4 * p + 3] > 0 =>
         LET lum == Luminance1000(data[4 * p], data[4 * p + 1], data[4 * p + 2])
         IN  /\ Intensity255000(lum) >= 0
             /\ Intensity255000(lum) <= Denominator
             /\ \A c \in 1..3 :
                  /\ BlendNumerator(TargetRgb[c], lum) >= 0
                  /\ BlendNumerator(TargetRgb[c], lum) <= 255 * Denominator
                  /\ BlendNumerator(TargetRgb[c], lum) >= TargetRgb[c] * Denominator
  /\ \A p \in PixelIndexes :
       (DoneInFirstPass(p) /\ inputImage.data[4 * p + 3] > 0) =>
         LET lum == Luminance1000(inputImage.data[4 * p], inputImage.data[4 * p + 1],
                                  inputImage.data[4 * p + 2])
         IN  \A c \in 1..3 :
               LET out == FirstPassData[4 * p + c - 1]
                   num == BlendNumerator(TargetRgb[c], lum)
               IN  /\ out >= TargetRgb[c]
                   /\ out <= 255
                   /\ 2 * (out * Denominator - num) <= Denominator
                   /\ 2 * (num - out * Denominator) <= Denominator

\* C14 witness: a mid-grey opaque pixel recolored to red: the channels
\* (255, 128, 128) lie between the target (255, 0, 0) and white.
C14_Witness ==
  /\ pass = 2
  /\ TargetRgb = <<255, 0, 0>>
  /\ \E p \in PixelIndexes :
       /\ PixelAt(inputImage.data, p) = <<128, 128, 128, 255>>
       /\ PixelAt(FirstPassData, p) = <<255, 128, 128, 255>>

\* the loop run from the last pixel down to the first: index i and below
RECURSIVE RecolorDownFrom(_, _, _)
RecolorDownFrom(data, i, newColorRgb) ==
  IF i >= 0
  THEN RecolorDownFrom(LoopBody(data, i, newColorRgb), i - 4, newColorRgb)
  ELSE data

\* a buffer of the input's size that agrees with the input on pixel p and
\* holds the pixel q everywhere else
AgreeingBuffer(p, q) ==
  Flatten([k \in 1..NumPixels(inputImage.data) |->
             IF k = p + 1 THEN PixelAt(inputImage.data, p) ELSE q])

\* C16: the output of a pixel depends on that pixel and the colour alone.
\* At every point of the first pass a pixel the loop has not reached is as in
\* the input, and a pixel it has passed is what the loop makes of that pixel
\* in a buffer of its own; when the pass has just ended, a buffer that agrees
\* with the input on pixel p and differs elsewhere gives the same output at
\* p, and the loop run from the last pixel to the first gives the same buffer.
C16_NoCrossPixelDependency ==
  /\ \A p \in PixelIndexes :
       PixelAt(FirstPassData, p) =
         IF DoneInFirstPass(p)
         THEN PixelAt(RecolorLoop(Flatten(<<PixelAt(inputImage.data, p)>>), targetColor), 0)
         ELSE PixelAt(inputImage.data, p)
  /\ (pass = 2 /\ loopI = 0) =>
       /\ \A p \in PixelIndexes : \A q \in PixelSamples :
            PixelAt(RecolorLoop(AgreeingBuffer(p, q), targetColor), p)
              = PixelAt(FirstPassData, p)
       /\ RecolorDownFrom(inputImage.data, DataLength(inputImage.data) - 4, targetColor)
            = FirstPassData

\* C16 witness: the first pass has ended on a buffer of two different
\* opaque pixels, black and mid-grey, and changed both.
C16_Witness ==
  /\ pass = 2
  /\ NumPixels(inputImage.data) = 2
  /\ PixelAt(inputImage.data, 0) = <<0, 0, 0, 255>>
  /\ PixelAt(inputImage.data, 1) = <<128, 128, 128, 255>>
  /\ PixelAt(FirstPassData, 0) # PixelAt(inputImage.data, 0)
  /\ PixelAt(FirstPassData, 1) # PixelAt(inputImage.data, 1)
  /\ PixelAt(FirstPassData, 0) # PixelAt(FirstPassData, 1)

(***************************************************************************)
(* Further claims about the App component (Spec).                          *)
(***************************************************************************)
\* the recolored encoding of the image run r decoded
ResultOf(r) ==
  LET img == ImageDecode(r.src)[1]
  IN  toDataURL([img EXCEPT !.data = RecolorLoop(@, r.rgb)])

\* C15: the stages of a pipeline run happen in order.  A decode begins only
\* on the data URL of a read that has completed (in a step that accepts a
\* file, or in which a read fails, no decode begins); a result is displayed
\* only in the step that ends the decode of a run whose source decoded, and
\* it is the encoding of the transform of the decoded image; a read failure
\* and a decode failure leave the displayed result as it was.
C15_StagesInOrder ==
  [][ /\ BagCardinality(runs') > BagCardinality(runs) =>
           /\ originalImage' # Null
           /\ \/ originalImage' = originalImage
              \/ \E file \in BagToSet(readers) :
                   /\ readers' = Without(readers, file)
                   /\ originalImage' = Some(readAsDataURL(file))
           /\ \E r \in BagToSet(runs') :
                r.latest /\ r.src = originalImage'[1] /\ runs'[r] = 1
      /\ \A file \in FileInputs :
           handleFileChange(file) => (runs' = runs /\ processedImage' \in {processedImage, Null})
      /\ \A file \in BagToSet(readers) :
           readerOnError(file) =>
             (runs' = runs /\ originalImage' = originalImage
                /\ processedImage' = processedImage)
      /\ (processedImage' # processedImage /\ processedImage' # Null) =>
           \E r \in BagToSet(runs) :
             /\ runs' = Without(runs, r)
             /\ ImageDecode(r.src) # Null
             /\ processedImage' = Some(ResultOf(r))
      /\ \A r \in BagToSet(runs) :
           (ImageDecode(r.src) = Null /\ runs' = Without(runs, r))
             => processedImage' = processedImage
    ]_vars

\* C15 witness: a file declared image/png was read to the end, its decode
\* began and failed, and no result is displayed.
C15_Witness ==
  /\ hist.ev = "imgOnError"
  /\ originalImage # Null
  /\ ImageDecode(originalImage[1]) = Null
  /\ processedImage = Null
  /\ error = Some(ErrLoad)

\* C17: whenever a pipeline run is in flight (its decode has started and
\* neither img.onload nor img.onerror has fired), isLoading is true, so the
\* view shows the processing state.
C17_LoadingWhileRunInFlight == runs # EmptyBag => isLoading

\* C18: the processing state ends.  In every state with no pipeline run in
\* flight isLoading is false, and, every decode in flight firing load or
\* error in the end, isLoading is false again after any state in which it is
\* true; also when getImageData throws or the colour is invalid.
C18_LoadingEnds ==
  /\ [](runs = EmptyBag => ~isLoading)
  /\ (isLoading ~> ~isLoading)

\* C18 witness: the only run in flight decoded, its transform threw, and the
\* processing state has ended with the error reported.
C18_Witness ==
  /\ hist.ev = "imgOnLoadThrew"
  /\ runs = EmptyBag
  /\ error = Some(ErrProcess)
  /\ ~isLoading

\* C19: in every reachable state a displayed result implies a loaded source
\* image: processedImage is non-null only if originalImage is non-null.
C19_ResultImpliesSource == processedImage # Null => originalImage # Null

====
